---- MODULE Spec2Model ----
(***************************************************************************)
(* Model of the single-node proof-of-work ledger in src/core: the          *)
(* Transaction / Block data model with canonical hashing, the Merkle       *)
(* engine, the wallet signature capability and the Blockchain state        *)
(* machine (mempool admission, mining, block verification, persistence).   *)
(*                                                                         *)
(* Strings and byte strings are modelled as sequences of small naturals.   *)
(* Field values stay below 90; 90..93 are delimiter tokens, so every       *)
(* encoding below is uniquely parseable and sha256 is collision-free.      *)
(***************************************************************************)
EXTENDS Integers, Sequences, FiniteSets, TLC

\* ----------------------------------------------------------------- bounds
\* longest chain the model grows (genesis included)
MaxChain == 2
\* most transactions pending in the mempool
MaxMempool == 2
\* largest transaction nonce offered to add_to_mempool / add_block
MaxNonce == 1
\* hash digests are modelled with 0..MaxZeros leading zero hex digits
MaxZeros == 2
\* longest list of leaf hashes handed to Merkle.proof
MaxLeaves == 4

\* ------------------------------------------------------- core/utils.py
\* hashlib.sha256(data).hexdigest(): an injective tagging of the input.
sha256_hex(data) == <<90>> \o data \o <<91>>

\* Number of leading "0" hex digits of a digest: a fixed pseudo-random
\* function of the digest (of its length and of its first four input
\* symbols).
LeadingZeros(h) ==
    IF Len(h) < 6 THEN Len(h) % (MaxZeros + 1)
    ELSE (h[2] + h[3] + h[4] + h[5] + Len(h)) % (MaxZeros + 1)

\* A JSON string value inside canon_json output: the text between quotes.
JsonStr(s) == <<92>> \o s \o <<92>>

\* base64.b64encode(b).decode("ascii")
b64e(b) == <<93>> \o b

\* base64.b64decode raises on input that is not base64
b64d_ok(s) == Len(s) >= 1 /\ s[1] = 93

b64d(s) == Tail(s)

\* ------------------------------------------------------ core/models.py
COINBASE == <<0>>

Transaction(sender, recipient, amount, nonce, timestamp, pubkey_b64, sig_b64) ==
    [sender |-> sender, recipient |-> recipient, amount |-> amount,
     nonce |-> nonce, timestamp |-> timestamp,
     pubkey_b64 |-> pubkey_b64, sig_b64 |-> sig_b64]

\* canon_json(message_dict()).encode(): keys sorted, sig_b64 left out
message_bytes(tx) ==
    <<tx.amount, tx.nonce>> \o JsonStr(tx.pubkey_b64) \o JsonStr(tx.recipient)
        \o JsonStr(tx.sender) \o <<tx.timestamp>>

\* sha256 over the canonical form of every field, signature included
txid(tx) ==
    sha256_hex(<<tx.amount, tx.nonce>> \o JsonStr(tx.pubkey_b64)
                   \o JsonStr(tx.recipient) \o JsonStr(tx.sender)
                   \o JsonStr(tx.sig_b64) \o <<tx.timestamp>>)

Block(height, prev_hash, timestamp, nonce, difficulty, merkle_root, transactions) ==
    [height |-> height, prev_hash |-> prev_hash, timestamp |-> timestamp,
     nonce |-> nonce, difficulty |-> difficulty, merkle_root |-> merkle_root,
     transactions |-> transactions]

\* sha256 over the canonical form of the header fields only (numbers
\* first, then the two strings)
block_hash(b) ==
    sha256_hex(<<b.nonce, b.difficulty, b.height, b.timestamp>>
                   \o JsonStr(b.merkle_root) \o JsonStr(b.prev_hash))

\* "0" * 64
ZeroHash == <<0, 0>>

\* ------------------------------------------------------ core/merkle.py
_hash_pair(a, b) == sha256_hex(a \o b)

PadLevel(level) ==
    IF Len(level) % 2 = 1 THEN Append(level, level[Len(level)]) ELSE level

NextLevel(level) ==
    [i \in 1..(Len(level) \div 2) |-> _hash_pair(level[2 * i - 1], level[2 * i])]

RECURSIVE MerkleLevels(_)
MerkleLevels(level) ==
    IF Len(level) <= 1 THEN level[1] ELSE MerkleLevels(NextLevel(PadLevel(level)))

MerkleRoot(hashes) ==
    IF hashes = <<>> THEN sha256_hex(<<>>) ELSE MerkleLevels(hashes)

\* hashes.index(target), 0-based: the first occurrence
IndexOf(hashes, target) ==
    (CHOOSE i \in 1..Len(hashes) :
         hashes[i] = target /\ \A j \in 1..(i - 1) : hashes[j] # target) - 1

\* idx ^ 1
Xor1(idx) == IF idx % 2 = 0 THEN idx + 1 ELSE idx - 1

\* Every sibling recorded on the right
ProofSide_right(idx) == "R"

\* side = "L" if sib_idx < idx else "R"
ProofSide(idx) == IF Xor1(idx) < idx THEN "L" ELSE "R"

\* The while loop of Merkle.proof: the level, the 0-based index in it of the
\* node above the target, and the path so far
RECURSIVE ProofLevels(_, _, _)
ProofLevels(level, idx, path) ==
    IF Len(level) <= 1 THEN path
    ELSE ProofLevels(NextLevel(PadLevel(level)), idx \div 2,
                     Append(path, <<PadLevel(level)[Xor1(idx) + 1], ProofSide(idx)>>))

\* Merkle.proof: found is FALSE for None
MerkleProof(hashes, target) ==
    IF ~(\E i \in 1..Len(hashes) : hashes[i] = target)
    THEN [found |-> FALSE, path |-> <<>>]
    ELSE [found |-> TRUE, path |-> ProofLevels(hashes, IndexOf(hashes, target), <<>>)]

\* The fold of Merkle.verify_proof from step i of the path on
RECURSIVE VerifyFold(_, _, _)
VerifyFold(cur, proof_path, i) ==
    IF i > Len(proof_path) THEN cur
    ELSE VerifyFold(IF proof_path[i][2] = "L"
                    THEN _hash_pair(proof_path[i][1], cur)
                    ELSE _hash_pair(cur, proof_path[i][1]),
                    proof_path, i + 1)

verify_proof(target, proof_path, root) == VerifyFold(target, proof_path, 1) = root

\* ------------------------------------------------------ core/wallet.py
\* Wallets are numbered 1..NumWallets; the last one is the miner's.
NumWallets == 3

WalletIds == 1..NumWallets

\* Signing backend picked when the module is imported (Ed25519 or the
\* placeholder scheme); it never changes afterwards.
VARIABLE USE_CRYPTOGRAPHY

\* Wallet.__init__: the secret key, as bytes
SecretKey(w) == <<w>>

\* Ed25519 public key of a secret key (a one-way injective map)
Ed25519Public(sk) == <<sk[1] + 10>>

pubkey_bytes(crypto, w) ==
    IF crypto THEN Ed25519Public(SecretKey(w)) ELSE SecretKey(w)

address(crypto, w) == sha256_hex(pubkey_bytes(crypto, w))

\* Ed25519 signature of message under sk
Ed25519Sign(sk, message) == <<88>> \o sk \o message

sign(crypto, w, message) ==
    IF crypto THEN Ed25519Sign(SecretKey(w), message)
    ELSE sha256_hex(SecretKey(w) \o message)

\* Wallet.verify: a malformed key or a wrong signature gives False
WalletVerify(crypto, pub, message, signature) ==
    IF crypto
    THEN \E w \in WalletIds :
             /\ Ed25519Public(SecretKey(w)) = pub
             /\ signature = Ed25519Sign(SecretKey(w), message)
    ELSE sha256_hex(pub \o message) = signature

\* --------------------------------------------- core/Blockchain.py: ledger
\* Python dict: a function over the set of its keys
EmptyDict == [k \in {} |-> 0]

DictGet(d, k, default) == IF k \in DOMAIN d THEN d[k] ELSE default

DictSet(d, k, v) == [x \in (DOMAIN d) \cup {k} |-> IF x = k THEN v ELSE d[x]]

\* d[k] = d.get(k, 0) + v
DictAdd(d, k, v) == DictSet(d, k, DictGet(d, k, 0) + v)

\* _apply_tx returning False without touching the pair
ApplyRejected(bal, non) == [ok |-> FALSE, balances |-> bal, nonces |-> non]

\* _apply_tx crediting the recipient without debiting the sender
_apply_tx_nodebit(tx, bal, non) ==
    IF tx.amount <= 0 THEN ApplyRejected(bal, non)
    ELSE IF tx.sender = COINBASE
    THEN [ok |-> TRUE, balances |-> DictAdd(bal, tx.recipient, tx.amount), nonces |-> non]
    ELSE IF tx.nonce # DictGet(non, tx.sender, 0) THEN ApplyRejected(bal, non)
    ELSE IF DictGet(bal, tx.sender, 0) < tx.amount THEN ApplyRejected(bal, non)
    ELSE [ok |-> TRUE,
          balances |-> DictAdd(bal, tx.recipient, tx.amount),
          nonces |-> DictAdd(non, tx.sender, 1)]

\* _apply_tx letting a sender spend more than it holds
_apply_tx_overdraft(tx, bal, non) ==
    IF tx.amount <= 0 THEN ApplyRejected(bal, non)
    ELSE IF tx.sender = COINBASE
    THEN [ok |-> TRUE, balances |-> DictAdd(bal, tx.recipient, tx.amount), nonces |-> non]
    ELSE IF tx.nonce # DictGet(non, tx.sender, 0) THEN ApplyRejected(bal, non)
    ELSE [ok |-> TRUE,
          balances |-> DictAdd(DictAdd(bal, tx.sender, 0 - tx.amount),
                               tx.recipient, tx.amount),
          nonces |-> DictAdd(non, tx.sender, 1)]

\* _apply_tx taking any nonce
_apply_tx_anynonce(tx, bal, non) ==
    IF tx.amount <= 0 THEN ApplyRejected(bal, non)
    ELSE IF tx.sender = COINBASE
    THEN [ok |-> TRUE, balances |-> DictAdd(bal, tx.recipient, tx.amount), nonces |-> non]
    ELSE IF DictGet(bal, tx.sender, 0) < tx.amount THEN ApplyRejected(bal, non)
    ELSE [ok |-> TRUE,
          balances |-> DictAdd(DictAdd(bal, tx.sender, 0 - tx.amount),
                               tx.recipient, tx.amount),
          nonces |-> DictAdd(non, tx.sender, 1)]

\* _apply_tx leaving the sender's nonce as it was
_apply_tx_keepnonce(tx, bal, non) ==
    IF tx.amount <= 0 THEN ApplyRejected(bal, non)
    ELSE IF tx.sender = COINBASE
    THEN [ok |-> TRUE, balances |-> DictAdd(bal, tx.recipient, tx.amount), nonces |-> non]
    ELSE IF tx.nonce # DictGet(non, tx.sender, 0) THEN ApplyRejected(bal, non)
    ELSE IF DictGet(bal, tx.sender, 0) < tx.amount THEN ApplyRejected(bal, non)
    ELSE [ok |-> TRUE,
          balances |-> DictAdd(DictAdd(bal, tx.sender, 0 - tx.amount),
                               tx.recipient, tx.amount),
          nonces |-> non]

\* _apply_tx crediting the recipient from the balance it read before the debit
_apply_tx_stalecredit(tx, bal, non) ==
    IF tx.amount <= 0 THEN ApplyRejected(bal, non)
    ELSE IF tx.sender = COINBASE
    THEN [ok |-> TRUE, balances |-> DictAdd(bal, tx.recipient, tx.amount), nonces |-> non]
    ELSE IF tx.nonce # DictGet(non, tx.sender, 0) THEN ApplyRejected(bal, non)
    ELSE IF DictGet(bal, tx.sender, 0) < tx.amount THEN ApplyRejected(bal, non)
    ELSE [ok |-> TRUE,
          balances |-> DictSet(DictAdd(bal, tx.sender, 0 - tx.amount),
                               tx.recipient, DictGet(bal, tx.recipient, 0) + tx.amount),
          nonces |-> DictAdd(non, tx.sender, 1)]

\* _apply_tx: [ok, balances, nonces], the pair as the call leaves it.  Past
\* the nonce check nonces.get(sender, 0) is tx.nonce, so exp + 1 adds one.
_apply_tx(tx, bal, non) ==
    IF tx.amount <= 0 THEN ApplyRejected(bal, non)
    ELSE IF tx.sender = COINBASE
    THEN [ok |-> TRUE, balances |-> DictAdd(bal, tx.recipient, tx.amount), nonces |-> non]
    ELSE IF tx.nonce # DictGet(non, tx.sender, 0) THEN ApplyRejected(bal, non)
    ELSE IF DictGet(bal, tx.sender, 0) < tx.amount THEN ApplyRejected(bal, non)
    ELSE [ok |-> TRUE,
          balances |-> DictAdd(DictAdd(bal, tx.sender, 0 - tx.amount),
                               tx.recipient, tx.amount),
          nonces |-> DictAdd(non, tx.sender, 1)]

\* Smallest balance held in a dict (0 for an empty one)
MinBalance(bal) ==
    IF DOMAIN bal = {} THEN 0
    ELSE CHOOSE m \in {bal[k] : k \in DOMAIN bal} : \A k \in DOMAIN bal : m <= bal[k]

Min2(a, b) == IF a <= b THEN a ELSE b

\* Smallest balance of a dict when negative, else 0
LowOf(bal) == Min2(0, MinBalance(bal))

\* "for tx in txs: if not self._apply_tx(tx, bal, non): return False", from
\* index i on.  low is the most negative balance any intermediate pair has
\* held (0 when none went below zero).  ApplyStep goes on from r, what
\* _apply_tx made of transaction i.
RECURSIVE ApplyAll(_, _, _, _, _)
ApplyStep(txs, i, r, low) ==
    IF ~r.ok
    THEN [ok |-> FALSE, balances |-> r.balances, nonces |-> r.nonces,
          low |-> Min2(low, LowOf(r.balances))]
    ELSE ApplyAll(txs, i + 1, r.balances, r.nonces, Min2(low, LowOf(r.balances)))

ApplyAll(txs, i, bal, non, low) ==
    IF i > Len(txs)
    THEN [ok |-> TRUE, balances |-> bal, nonces |-> non, low |-> low]
    ELSE ApplyStep(txs, i, _apply_tx(txs[i], bal, non), low)

Replay(txs, bal, non) == ApplyAll(txs, 1, bal, non, LowOf(bal))

verify_transaction(crypto, tx) ==
    IF tx.amount <= 0 THEN FALSE
    ELSE IF tx.sender = COINBASE THEN TRUE
    ELSE IF tx.pubkey_b64 = <<>> \/ tx.sig_b64 = <<>> THEN FALSE
    ELSE IF ~b64d_ok(tx.pubkey_b64) \/ ~b64d_ok(tx.sig_b64) THEN FALSE
    ELSE IF sha256_hex(b64d(tx.pubkey_b64)) # tx.sender THEN FALSE
    ELSE WalletVerify(crypto, b64d(tx.pubkey_b64), message_bytes(tx), b64d(tx.sig_b64))

\* ----------------------------------- core/Blockchain.py: blocks / mining
\* The mutable fields of a Blockchain instance, with its configuration
Instance(ch, mp, bal, non, diff, rew) ==
    [chain |-> ch, mempool |-> mp, balances |-> bal, next_nonce |-> non,
     difficulty |-> diff, reward |-> rew]

\* h.startswith("0" * difficulty)
_pow_ok(h, diff) == diff <= LeadingZeros(h)

Txids(txs) == [i \in 1..Len(txs) |-> txid(txs[i])]

\* self.chain[-1].block_hash() if self.chain else "0" * 64
TipHash(ch) == IF ch = <<>> THEN ZeroHash ELSE block_hash(ch[Len(ch)])

\* The block's transactions: the coinbase first when height > 0
WithCoinbase(self, txs, miner_addr, ts) ==
    IF Len(self.chain) > 0
    THEN <<Transaction(COINBASE, miner_addr, self.reward, 0, ts, <<>>, <<>>)>> \o txs
    ELSE txs

\* Block(height, prev_hash, ts, nonce = 0, difficulty, Merkle.root(txids), txs)
NewBlock(height, prev_hash, ts, diff, txs) ==
    Block(height, prev_hash, ts, 0, diff, MerkleRoot(Txids(txs)), txs)

_make_block(self, txs, miner_addr, ts) ==
    NewBlock(Len(self.chain), TipHash(self.chain), ts, self.difficulty,
             WithCoinbase(self, txs, miner_addr, ts))

\* block.nonce = nonce
WithNonce(block, nonce) == [block EXCEPT !.nonce = nonce]

\* The nonce search: "while True: block.nonce = nonce; ...; nonce += 1"
RECURSIVE MineFrom(_, _)
MineFrom(block, nonce) ==
    IF _pow_ok(block_hash(WithNonce(block, nonce)), block.difficulty)
    THEN WithNonce(block, nonce)
    ELSE MineFrom(block, nonce + 1)

\* The coinbase rules without the comparison of the amount with the reward
CoinbaseRulesOk_anyreward(txs, pos, rew) ==
    IF pos = 0
    THEN \A i \in 1..Len(txs) : txs[i].sender = COINBASE
    ELSE /\ Len(txs) # 0
         /\ txs[1].sender = COINBASE
         /\ \A i \in 2..Len(txs) : txs[i].sender # COINBASE

\* Coinbase placement rules of verify_block / is_valid for a block at
\* position pos (lines 193-204 and 247-258)
CoinbaseRulesOk(txs, pos, rew) ==
    IF pos = 0
    THEN \A i \in 1..Len(txs) : txs[i].sender = COINBASE
    ELSE /\ Len(txs) # 0
         /\ txs[1].sender = COINBASE
         /\ txs[1].amount = rew
         /\ \A i \in 2..Len(txs) : txs[i].sender # COINBASE

\* The checks of verify_block without the proof of work
VerifyBlockHeader_nopow(self, crypto, block) ==
    /\ block.height = Len(self.chain)
    /\ block.prev_hash = TipHash(self.chain)
    /\ MerkleRoot(Txids(block.transactions)) = block.merkle_root
    /\ CoinbaseRulesOk(block.transactions, block.height, self.reward)
    /\ \A i \in 1..Len(block.transactions) :
           verify_transaction(crypto, block.transactions[i])

\* verify_block up to (not including) the replay on the copied ledger
VerifyBlockHeader(self, crypto, block) ==
    /\ block.height = Len(self.chain)
    /\ block.prev_hash = TipHash(self.chain)
    /\ MerkleRoot(Txids(block.transactions)) = block.merkle_root
    /\ _pow_ok(block_hash(block), block.difficulty)
    /\ CoinbaseRulesOk(block.transactions, block.height, self.reward)
    /\ \A i \in 1..Len(block.transactions) :
           verify_transaction(crypto, block.transactions[i])

\* verify_block without the replay on the copied ledger
verify_block_noreplay(self, crypto, block) == VerifyBlockHeader(self, crypto, block)

verify_block(self, crypto, block) ==
    /\ VerifyBlockHeader(self, crypto, block)
    /\ Replay(block.transactions, self.balances, self.next_nonce).ok

\* The most negative balance verify_block's copied ledger holds (0 when the
\* block is refused before the replay)
VerifyBlockLow(self, crypto, block) ==
    IF VerifyBlockHeader(self, crypto, block)
    THEN Replay(block.transactions, self.balances, self.next_nonce).low
    ELSE 0

\* add_block appending the block without applying it to the live ledger
add_block_unapplied(self, crypto, block) ==
    IF ~verify_block(self, crypto, block)
    THEN [ok |-> FALSE, self |-> self, partial |-> FALSE,
          low |-> VerifyBlockLow(self, crypto, block)]
    ELSE [ok |-> TRUE, self |-> [self EXCEPT !.chain = Append(self.chain, block)],
          partial |-> FALSE, low |-> VerifyBlockLow(self, crypto, block)]

\* add_block past verify_block (lines 223-229): r is the replay of the block
\* on the live ledger, low what verify_block's copy held
AddBlockApply(self, block, r, low) ==
    IF ~r.ok
    THEN [ok |-> FALSE,
          self |-> [self EXCEPT !.balances = r.balances, !.next_nonce = r.nonces],
          partial |-> TRUE, low |-> Min2(r.low, low)]
    ELSE [ok |-> TRUE,
          self |-> [self EXCEPT !.balances = r.balances, !.next_nonce = r.nonces,
                                !.chain = Append(self.chain, block)],
          partial |-> FALSE, low |-> Min2(r.low, low)]

\* add_block: [ok, self, partial, low]; partial marks the return inside the
\* live application loop (lines 225-226)
add_block(self, crypto, block) ==
    IF ~verify_block(self, crypto, block)
    THEN [ok |-> FALSE, self |-> self, partial |-> FALSE,
          low |-> VerifyBlockLow(self, crypto, block)]
    ELSE AddBlockApply(self, block,
                       Replay(block.transactions, self.balances, self.next_nonce),
                       VerifyBlockLow(self, crypto, block))

\* Python slice s[:k]
SliceTo(s, k) ==
    IF k >= 0 THEN SubSeq(s, 1, Min2(k, Len(s)))
    ELSE SubSeq(s, 1, IF Len(s) + k > 0 THEN Len(s) + k ELSE 0)

\* The mempool emptied after mining, whatever was mined
WithoutMined_all(s, mined) == <<>>

\* [t for t in s if t.txid() not in mined]
RECURSIVE WithoutMined(_, _)
WithoutMined(s, mined) ==
    IF s = <<>> THEN <<>>
    ELSE IF txid(Head(s)) \in mined THEN WithoutMined(Tail(s), mined)
    ELSE <<Head(s)>> \o WithoutMined(Tail(s), mined)

\* mine_pending past add_block (lines 171-176): r is what add_block returned
\* for the block mined from txs
MinePendingDone(self, txs, r) ==
    IF ~r.ok
    THEN [ok |-> FALSE, self |-> r.self, partial |-> r.partial, low |-> r.low]
    ELSE [ok |-> TRUE,
          self |-> [r.self EXCEPT
                       !.mempool = WithoutMined(self.mempool,
                                                {txid(txs[i]) : i \in 1..Len(txs)})],
          partial |-> FALSE, low |-> r.low]

\* mine_pending: [ok, self, partial, low]; ok for a returned Block (the last
\* of self.chain), not ok for None
mine_pending(self, crypto, miner_addr, max_txs, ts) ==
    MinePendingDone(self, SliceTo(self.mempool, max_txs),
                    add_block(self, crypto,
                              MineFrom(_make_block(self, SliceTo(self.mempool, max_txs),
                                                   miner_addr, ts), 0)))

\* add_to_mempool returning False
MempoolRejected(self, low) == [ok |-> FALSE, self |-> self, low |-> low]

\* add_to_mempool past the trial replay (lines 120-129): r is the replay of
\* the mempool and tx on the copied ledger
MempoolAdmit(self, tx, r) ==
    IF ~r.ok THEN MempoolRejected(self, r.low)
    ELSE [ok |-> TRUE, self |-> [self EXCEPT !.mempool = Append(self.mempool, tx)],
          low |-> r.low]

\* add_to_mempool letting a coinbase transaction into the mempool
add_to_mempool_coinbase(self, crypto, tx) ==
    IF ~verify_transaction(crypto, tx) THEN MempoolRejected(self, LowOf(self.balances))
    ELSE IF \E i \in 1..Len(self.mempool) : txid(self.mempool[i]) = txid(tx)
    THEN MempoolRejected(self, LowOf(self.balances))
    ELSE MempoolAdmit(self, tx,
                      Replay(Append(self.mempool, tx), self.balances, self.next_nonce))

\* add_to_mempool appending whatever passes verify_transaction
add_to_mempool_unchecked(self, crypto, tx) ==
    IF ~verify_transaction(crypto, tx) THEN MempoolRejected(self, LowOf(self.balances))
    ELSE [ok |-> TRUE, self |-> [self EXCEPT !.mempool = Append(self.mempool, tx)],
          low |-> LowOf(self.balances)]

\* add_to_mempool: [ok, self, low]; low is the smallest balance the copied
\* ledger held during the trial replay
add_to_mempool(self, crypto, tx) ==
    IF ~verify_transaction(crypto, tx) THEN MempoolRejected(self, LowOf(self.balances))
    ELSE IF \E i \in 1..Len(self.mempool) : txid(self.mempool[i]) = txid(tx)
    THEN MempoolRejected(self, LowOf(self.balances))
    ELSE IF tx.sender = COINBASE THEN MempoolRejected(self, LowOf(self.balances))
    ELSE MempoolAdmit(self, tx,
                      Replay(Append(self.mempool, tx), self.balances, self.next_nonce))

\* "for tx in block.transactions: verify_transaction, then _apply_tx" of
\* is_valid (lines 261-265) and load (lines 302-306); VerifyApplyStep goes on
\* from r, what _apply_tx made of transaction i
RECURSIVE VerifyApplyAll(_, _, _, _, _, _)
VerifyApplyStep(crypto, txs, i, r, low) ==
    IF ~r.ok
    THEN [ok |-> FALSE, balances |-> r.balances, nonces |-> r.nonces,
          low |-> Min2(low, LowOf(r.balances))]
    ELSE VerifyApplyAll(crypto, txs, i + 1, r.balances, r.nonces,
                        Min2(low, LowOf(r.balances)))

VerifyApplyAll(crypto, txs, i, bal, non, low) ==
    IF i > Len(txs)
    THEN [ok |-> TRUE, balances |-> bal, nonces |-> non, low |-> low]
    ELSE IF ~verify_transaction(crypto, txs[i])
    THEN [ok |-> FALSE, balances |-> bal, nonces |-> non, low |-> low]
    ELSE VerifyApplyStep(crypto, txs, i, _apply_tx(txs[i], bal, non), low)

\* chain[i - 1].block_hash() if i > 0 else "0" * 64, for the 1-based index i
PrevHash(ch, i) == IF i > 1 THEN block_hash(ch[i - 1]) ELSE ZeroHash

\* is_valid from block index i (1-based) on, with the ledger replayed so
\* far: [ok, low].  IsValidStep goes on from r, the replay of block i.
RECURSIVE IsValidFrom(_, _, _, _, _, _)
IsValidStep(self, crypto, i, r) ==
    IF ~r.ok THEN [ok |-> FALSE, low |-> r.low]
    ELSE IsValidFrom(self, crypto, i + 1, r.balances, r.nonces, r.low)

IsValidFrom(self, crypto, i, bal, non, low) ==
    IF i > Len(self.chain) THEN [ok |-> TRUE, low |-> low]
    ELSE IF self.chain[i].prev_hash # PrevHash(self.chain, i)
    THEN [ok |-> FALSE, low |-> low]
    ELSE IF ~_pow_ok(block_hash(self.chain[i]), self.chain[i].difficulty)
    THEN [ok |-> FALSE, low |-> low]
    ELSE IF MerkleRoot(Txids(self.chain[i].transactions)) # self.chain[i].merkle_root
    THEN [ok |-> FALSE, low |-> low]
    ELSE IF ~CoinbaseRulesOk(self.chain[i].transactions, i - 1, self.reward)
    THEN [ok |-> FALSE, low |-> low]
    ELSE IsValidStep(self, crypto, i,
                     VerifyApplyAll(crypto, self.chain[i].transactions, 1, bal, non, low))

is_valid(self, crypto) == IsValidFrom(self, crypto, 1, EmptyDict, EmptyDict, 0).ok

\* ------------------- core/Blockchain.py: the dict objects a replay writes
\* The two pairs of dicts a call can hold: "live" is self.balances and
\* self.next_nonce, "tmp" the pair a call makes for its trial replay
Heap(self) ==
    [live |-> [balances |-> self.balances, nonces |-> self.next_nonce],
     tmp |-> [balances |-> EmptyDict, nonces |-> EmptyDict]]

\* "tmp_bal = self.balances": the trial names bound to the live dicts
ScratchRef_alias == "live"

\* The object tmp_bal and tmp_non name after "tmp_bal = dict(self.balances)"
\* and "tmp_non = dict(self.next_nonce)": dict() makes a new object
ScratchRef == "tmp"

\* dict(self.balances), dict(self.next_nonce): the items of the live dicts
CopyLive(heap) == [heap EXCEPT ![ScratchRef] = heap.live]

\* _apply_tx writes to the two dicts it was handed
HeapStore(heap, ref, r) ==
    [heap EXCEPT ![ref] = [balances |-> r.balances, nonces |-> r.nonces]]

\* "for tx in txs: if not self._apply_tx(tx, tmp_bal, tmp_non): return False"
\* on the objects named ref, from index i on: [ok, heap]
RECURSIVE ReplayOn(_, _, _, _)
ReplayOnStep(heap, ref, txs, i, r) ==
    IF ~r.ok THEN [ok |-> FALSE, heap |-> HeapStore(heap, ref, r)]
    ELSE ReplayOn(HeapStore(heap, ref, r), ref, txs, i + 1)

ReplayOn(heap, ref, txs, i) ==
    IF i > Len(txs) THEN [ok |-> TRUE, heap |-> heap]
    ELSE ReplayOnStep(heap, ref, txs, i,
                      _apply_tx(txs[i], heap[ref].balances, heap[ref].nonces))

\* verify_block with the objects it leaves: [ok, heap]
verify_block_heap(self, crypto, block) ==
    IF ~VerifyBlockHeader(self, crypto, block)
    THEN [ok |-> FALSE, heap |-> Heap(self)]
    ELSE ReplayOn(CopyLive(Heap(self)), ScratchRef, block.transactions, 1)

\* add_to_mempool's trial replay (lines 122-126) with the objects it leaves
add_to_mempool_heap(self, crypto, tx) ==
    IF ~verify_transaction(crypto, tx) THEN [ok |-> FALSE, heap |-> Heap(self)]
    ELSE IF \E i \in 1..Len(self.mempool) : txid(self.mempool[i]) = txid(tx)
    THEN [ok |-> FALSE, heap |-> Heap(self)]
    ELSE IF tx.sender = COINBASE THEN [ok |-> FALSE, heap |-> Heap(self)]
    ELSE ReplayOn(CopyLive(Heap(self)), ScratchRef, Append(self.mempool, tx), 1)

\* ------------------------------- core/Blockchain.py: genesis, persistence
\* The coinbase transactions of the genesis block; allocations is the dict's
\* items in insertion order
GenesisTxs(allocations, now) ==
    [i \in 1..Len(allocations) |->
        Transaction(COINBASE, allocations[i][1], allocations[i][2], 0, now, <<>>, <<>>)]

\* create_and_add_genesis returning the block whatever add_block answered
GenesisDone_silent(r) ==
    [ret |-> "Block", self |-> r.self, partial |-> r.partial, low |-> r.low]

\* create_and_add_genesis past add_block (lines 338-341)
GenesisDone(r) ==
    [ret |-> IF r.ok THEN "Block" ELSE "raise", self |-> r.self, partial |-> r.partial,
     low |-> r.low]

\* create_and_add_genesis: ret is "Block" or "raise" (RuntimeError)
create_and_add_genesis(self, crypto, allocations, now) ==
    GenesisDone(add_block(self, crypto,
                          MineFrom(NewBlock(0, ZeroHash, now, self.difficulty,
                                            GenesisTxs(allocations, now)), 0)))

\* Transaction.to_dict leaving the signature out
tx_to_dict_unsigned(tx) ==
    [sender |-> tx.sender, recipient |-> tx.recipient, amount |-> tx.amount,
     nonce |-> tx.nonce, timestamp |-> tx.timestamp, pubkey_b64 |-> tx.pubkey_b64]

\* Transaction.to_dict / Block.to_dict: the JSON objects save() writes
tx_to_dict(tx) ==
    [sender |-> tx.sender, recipient |-> tx.recipient, amount |-> tx.amount,
     nonce |-> tx.nonce, timestamp |-> tx.timestamp,
     pubkey_b64 |-> tx.pubkey_b64, sig_b64 |-> tx.sig_b64]

block_to_dict(b) ==
    [height |-> b.height, prev_hash |-> b.prev_hash, timestamp |-> b.timestamp,
     nonce |-> b.nonce, difficulty |-> b.difficulty, merkle_root |-> b.merkle_root,
     transactions |-> [i \in 1..Len(b.transactions) |-> tx_to_dict(b.transactions[i])]]

TxKeys == {"sender", "recipient", "amount", "nonce", "timestamp", "pubkey_b64", "sig_b64"}

BlockKeys == {"height", "prev_hash", "timestamp", "nonce", "difficulty", "merkle_root",
              "transactions"}

\* Transaction(**d) raises TypeError unless d has the required fields and no
\* unknown one (pubkey_b64 and sig_b64 have defaults)
tx_from_dict_ok(d) ==
    /\ TxKeys \ {"pubkey_b64", "sig_b64"} \subseteq DOMAIN d
    /\ DOMAIN d \subseteq TxKeys

tx_from_dict(d) ==
    Transaction(d.sender, d.recipient, d.amount, d.nonce, d.timestamp,
                IF "pubkey_b64" \in DOMAIN d THEN d.pubkey_b64 ELSE <<>>,
                IF "sig_b64" \in DOMAIN d THEN d.sig_b64 ELSE <<>>)

\* Block.from_dict raises KeyError on a missing field
block_from_dict_ok(d) ==
    /\ BlockKeys \subseteq DOMAIN d
    /\ \A i \in 1..Len(d.transactions) : tx_from_dict_ok(d.transactions[i])

block_from_dict(d) ==
    Block(d.height, d.prev_hash, d.timestamp, d.nonce, d.difficulty, d.merkle_root,
          [i \in 1..Len(d.transactions) |-> tx_from_dict(d.transactions[i])])

\* A file: kind is "missing", "garbage" (not JSON) or "json" with data the
\* parsed list
MissingFile == [kind |-> "missing", data |-> <<>>]

GarbageFile == [kind |-> "garbage", data |-> <<>>]

JsonFile(data) == [kind |-> "json", data |-> data]

\* save(): json.dump([b.to_dict() for b in self.chain])
save(self) == JsonFile([i \in 1..Len(self.chain) |-> block_to_dict(self.chain[i])])

\* The replay loop of load over the parsed chain, from block index i on;
\* LoadStep goes on from r, the replay of block i
RECURSIVE LoadReplay(_, _, _, _, _, _)
LoadStep(crypto, ch, i, r) ==
    IF ~r.ok THEN r ELSE LoadReplay(crypto, ch, i + 1, r.balances, r.nonces, r.low)

LoadReplay(crypto, ch, i, bal, non, low) ==
    IF i > Len(ch)
    THEN [ok |-> TRUE, balances |-> bal, nonces |-> non, low |-> low]
    ELSE IF ch[i].prev_hash # PrevHash(ch, i)
    THEN [ok |-> FALSE, balances |-> bal, nonces |-> non, low |-> low]
    ELSE IF ~_pow_ok(block_hash(ch[i]), ch[i].difficulty)
    THEN [ok |-> FALSE, balances |-> bal, nonces |-> non, low |-> low]
    ELSE IF MerkleRoot(Txids(ch[i].transactions)) # ch[i].merkle_root
    THEN [ok |-> FALSE, balances |-> bal, nonces |-> non, low |-> low]
    ELSE LoadStep(crypto, ch, i,
                  VerifyApplyAll(crypto, ch[i].transactions, 1, bal, non, low))

\* load past the replay (lines 308-312): r is the replay of the parsed chain
LoadCommit(self, ch, r) ==
    IF ~r.ok THEN [ret |-> "False", self |-> self, low |-> r.low]
    ELSE [ret |-> "True",
          self |-> [self EXCEPT !.chain = ch, !.mempool = <<>>,
                                !.balances = r.balances, !.next_nonce = r.nonces],
          low |-> r.low]

\* load past the parsing (lines 289-312)
LoadChain(self, crypto, ch) ==
    LoadCommit(self, ch, LoadReplay(crypto, ch, 1, EmptyDict, EmptyDict, 0))

\* load(): [ret, self, low]; ret is "True", "False" or "raise" (an exception
\* other than FileNotFoundError leaves load)
load(self, crypto, file) ==
    IF file.kind = "missing"
    THEN [ret |-> "False", self |-> self, low |-> 0]
    ELSE IF file.kind = "garbage"
    THEN [ret |-> "raise", self |-> self, low |-> 0]
    ELSE IF \E i \in 1..Len(file.data) : ~block_from_dict_ok(file.data[i])
    THEN [ret |-> "raise", self |-> self, low |-> 0]
    ELSE LoadChain(self, crypto,
                   [i \in 1..Len(file.data) |-> block_from_dict(file.data[i])])

\* ------------------------------------------------------------ the inputs
\* time.time(): every call of the model happens at the same instant
Now == 0

Miner == NumWallets

Senders == WalletIds \ {Miner}

\* tx carrying the public key of wallet k
WithKey(crypto, k, tx) == [tx EXCEPT !.pubkey_b64 = b64e(pubkey_bytes(crypto, k))]

\* tx.sig_b64 = b64e(wallet.sign(tx.message_bytes())) for wallet v
SignedBy(crypto, v, tx) ==
    [tx EXCEPT !.sig_b64 = b64e(sign(crypto, v, message_bytes(tx)))]

\* A transaction as create_transaction builds and signs it for wallet w
SignedTx(crypto, w, recipient, amount, nonce, ts) ==
    SignedBy(crypto, w,
             WithKey(crypto, w,
                     Transaction(address(crypto, w), recipient, amount, nonce, ts,
                                 <<>>, <<>>)))

\* self.next_nonce.get(addr, 0)
expected_nonce(self, addr) == DictGet(self.next_nonce, addr, 0)

\* {tx.nonce for tx in self.mempool if tx.sender == addr}
PendingNonces(self, addr) ==
    {self.mempool[i].nonce :
         i \in {j \in 1..Len(self.mempool) : self.mempool[j].sender = addr}}

\* "while n in pending_nonces: n += 1"
RECURSIVE SkipPending(_, _)
SkipPending(n, pending_nonces) ==
    IF n \in pending_nonces THEN SkipPending(n + 1, pending_nonces) ELSE n

expected_nonce_with_mempool(self, addr) ==
    SkipPending(expected_nonce(self, addr), PendingNonces(self, addr))

\* create_transaction for wallet w at time ts
create_transaction(self, crypto, w, recipient, amount, ts) ==
    SignedTx(crypto, w, recipient, amount,
             expected_nonce_with_mempool(self, address(crypto, w)), ts)

CoinbaseTx(recipient, amount) == Transaction(COINBASE, recipient, amount, 0, Now, <<>>, <<>>)

\* Wallet w's unsigned transaction tx with a signature that is no signature
BadSigTx(crypto, w, tx) == [WithKey(crypto, w, tx) EXCEPT !.sig_b64 = <<1>>]

\* tx under w's public key with hashlib.sha256(pubkey_bytes + message) as its
\* signature: computed from the bytes every transaction of w publishes
HashSignedTx(crypto, w, tx) ==
    [WithKey(crypto, w, tx) EXCEPT
        !.sig_b64 = b64e(sha256_hex(pubkey_bytes(crypto, w)
                                        \o message_bytes(WithKey(crypto, w, tx))))]

\* Transactions naming sender w put together without w's wallet: signed by
\* wallet v under v's key, signed by v but carrying w's key, carrying no
\* signature, a signature that does not decode, or the hash of w's public
\* key bytes and the message
ForgedFrom(crypto, w, v, tx) ==
    { SignedBy(crypto, v, WithKey(crypto, v, tx)),
      SignedBy(crypto, v, WithKey(crypto, w, tx)),
      WithKey(crypto, w, tx),
      BadSigTx(crypto, w, tx),
      HashSignedTx(crypto, w, tx) }

ForgedTxs(crypto, w, v, recipient) ==
    ForgedFrom(crypto, w, v,
               Transaction(address(crypto, w), recipient, 1, 0, Now, <<>>, <<>>))

\* Amounts and nonces callers put in transactions
AmountInputs == {0, 1}

NonceInputs == 0..MaxNonce

\* Who pays whom: every sender to every other one, and wallet 1 to itself
Transfers == {p \in Senders \X Senders : p[1] # p[2] \/ p[1] = 1}

\* What callers hand to add_to_mempool: signed transfers, forgeries and a
\* coinbase
TxInputs ==
    [c \in BOOLEAN |->
        {SignedTx(c, p[1], address(c, p[2]), a, n, Now) :
             p \in Transfers, a \in AmountInputs, n \in NonceInputs}
        \cup ForgedTxs(c, 1, 2, address(c, 2))
        \cup {CoinbaseTx(address(c, 1), 1)}]

\* What arg records of a transaction handed to add_to_mempool: "pending"
\* when a transaction with its txid is in the mempool already
TxKind(self, tx) ==
    IF \E i \in 1..Len(self.mempool) : txid(self.mempool[i]) = txid(tx)
    THEN "pending" ELSE "none"

\* Wallet w pays wallet v
Pay(c, w, v, amount, nonce) == SignedTx(c, w, address(c, v), amount, nonce, Now)

\* The user transactions of the blocks handed to add_block: in-order and
\* out-of-order transfers, a repeated transfer, an overdraft, a forgery
UserLists ==
    [c \in BOOLEAN |->
        { <<>>,
          <<Pay(c, 1, 2, 1, 0)>>,
          <<Pay(c, 2, 1, 1, 0)>>,
          <<Pay(c, 1, 2, 1, 0), Pay(c, 1, 2, 1, 1)>>,
          <<Pay(c, 1, 2, 1, 0), Pay(c, 2, 1, 1, 0)>>,
          <<Pay(c, 1, 2, 1, 1)>>,
          <<Pay(c, 1, 2, 1, 0), Pay(c, 1, 2, 1, 0)>>,
          <<Pay(c, 2, 1, 2, 0)>>,
          <<BadSigTx(c, 1, Transaction(address(c, 1), address(c, 2), 1, 0, Now,
                                       <<>>, <<>>))>> }]

\* The ways a block handed to add_block is put together
BlockKinds == {"none", "nocoinbase", "badreward", "latecoinbase",
               "height", "prev", "root", "pow", "lowdiff"}

\* What arg records of a block's kind
BlockKindClass(kind) ==
    IF kind \in {"nocoinbase", "badreward", "latecoinbase"} THEN "coinbase"
    ELSE IF kind = "lowdiff" THEN "lowdiff"
    ELSE IF kind = "none" THEN "none"
    ELSE "header"

\* A nonce under which the header hash misses the difficulty
RECURSIVE UnminedFrom(_, _)
UnminedFrom(block, nonce) ==
    IF ~_pow_ok(block_hash(WithNonce(block, nonce)), block.difficulty)
    THEN WithNonce(block, nonce)
    ELSE UnminedFrom(block, nonce + 1)

\* The transactions of a block of a kind around the user transactions us
BlockInputTxs(crypto, kind, us, rew) ==
    CASE kind = "nocoinbase" -> us
      [] kind = "badreward" -> <<CoinbaseTx(address(crypto, Miner), rew + 1)>> \o us
      [] kind = "latecoinbase" ->
             <<CoinbaseTx(address(crypto, Miner), rew)>> \o us
                 \o <<CoinbaseTx(address(crypto, Miner), rew)>>
      [] OTHER -> <<CoinbaseTx(address(crypto, Miner), rew)>> \o us

\* The header around them, before the nonce search
BlockInputHeader(self, kind, txs) ==
    Block(IF kind = "height" THEN Len(self.chain) + 1 ELSE Len(self.chain),
          IF kind = "prev" THEN sha256_hex(<<>>) ELSE TipHash(self.chain),
          Now, 0,
          IF kind = "lowdiff" THEN 0 ELSE self.difficulty,
          IF kind = "root" THEN MerkleRoot(<<>>) ELSE MerkleRoot(Txids(txs)),
          txs)

BlockInputMined(kind, block) ==
    IF kind = "pow" THEN UnminedFrom(block, 0) ELSE MineFrom(block, 0)

BlockInput(self, crypto, kind, us) ==
    BlockInputMined(kind,
                    BlockInputHeader(self, kind,
                                     BlockInputTxs(crypto, kind, us, self.reward)))

\* Genesis allocations: the items of the dict, in insertion order
GenesisInputs ==
    [c \in BOOLEAN |->
        { <<<<address(c, 1), 1>>, <<address(c, 2), 1>>>>,
          <<<<address(c, 1), 1>>, <<address(c, 2), 1>>, <<address(c, Miner), 1>>>>,
          <<<<address(c, 1), 1>>>>,
          <<<<address(c, 1), 1>>, <<address(c, 2), 0>>>>,
          <<<<address(c, 1), 1>>, <<address(c, 2), 0 - 1>>>> }]

\* USE_CRYPTOGRAPHY: Ed25519 when the cryptography package imports, the hash
\* fallback otherwise
Backends == BOOLEAN

\* Constructor arguments: Blockchain(difficulty, reward)
Difficulties == {1}

Rewards == {1}

\* A chain file written by another program: block i holds txlists[i] at
\* height heights[i], linked and mined like _make_block / mine_pending do
RECURSIVE ForgeChain(_, _, _, _)
ForgeChain(txlists, heights, diff, ch) ==
    IF Len(ch) = Len(txlists) THEN ch
    ELSE ForgeChain(txlists, heights, diff,
                    Append(ch, MineFrom(NewBlock(heights[Len(ch) + 1], TipHash(ch), Now,
                                                 diff, txlists[Len(ch) + 1]), 0)))

\* The last block of a chain damaged after it was mined
Damaged(damage, ch) ==
    CASE damage = "prev" -> [ch EXCEPT ![Len(ch)].prev_hash = ZeroHash]
      [] damage = "root" -> [ch EXCEPT ![Len(ch)].merkle_root = MerkleRoot(<<>>)]
      [] damage = "pow" -> [ch EXCEPT ![Len(ch)] = UnminedFrom(ch[Len(ch)], 0)]
      [] OTHER -> ch

ChainFile(ch) == JsonFile([i \in 1..Len(ch) |-> block_to_dict(ch[i])])

\* Two genesis allocations, to wallets 1 and 2
GenesisList(c) == <<CoinbaseTx(address(c, 1), 1), CoinbaseTx(address(c, 2), 1)>>

\* The chains of the files load is pointed at, each tagged with what is
\* wrong with it: "valid" chains, "rulebreak" chains (a block breaks a
\* verify_block rule of height or coinbase placement), "invalid" chains
\* (broken link, merkle root, proof of work, signature or replay)
ChainInputs(c, rew) ==
    { [tag |-> "valid", heights |-> <<0>>, damage |-> "none",
       lists |-> <<GenesisList(c)>>],
      [tag |-> "valid", heights |-> <<0, 1>>, damage |-> "none",
       lists |-> <<GenesisList(c),
                   <<CoinbaseTx(address(c, Miner), rew), Pay(c, 1, 2, 1, 0)>>>>],
      [tag |-> "rulebreak", heights |-> <<0, 1>>, damage |-> "none",
       lists |-> <<GenesisList(c), <<Pay(c, 1, 2, 1, 0)>>>>],
      [tag |-> "rulebreak", heights |-> <<0, 1>>, damage |-> "none",
       lists |-> <<GenesisList(c), <<>>>>],
      [tag |-> "rulebreak", heights |-> <<0, 1>>, damage |-> "none",
       lists |-> <<GenesisList(c), <<CoinbaseTx(address(c, 1), rew + 1)>>>>],
      [tag |-> "rulebreak", heights |-> <<0, 1>>, damage |-> "none",
       lists |-> <<GenesisList(c),
                   <<CoinbaseTx(address(c, Miner), rew),
                     CoinbaseTx(address(c, Miner), rew)>>>>],
      [tag |-> "rulebreak", heights |-> <<1, 1>>, damage |-> "none",
       lists |-> <<GenesisList(c),
                   <<CoinbaseTx(address(c, Miner), rew), Pay(c, 1, 2, 1, 0)>>>>],
      [tag |-> "invalid", heights |-> <<0, 1>>, damage |-> "prev",
       lists |-> <<GenesisList(c), <<CoinbaseTx(address(c, Miner), rew)>>>>],
      [tag |-> "invalid", heights |-> <<0, 1>>, damage |-> "root",
       lists |-> <<GenesisList(c), <<CoinbaseTx(address(c, Miner), rew)>>>>],
      [tag |-> "invalid", heights |-> <<0, 1>>, damage |-> "pow",
       lists |-> <<GenesisList(c), <<CoinbaseTx(address(c, Miner), rew)>>>>],
      [tag |-> "invalid", heights |-> <<0, 1>>, damage |-> "none",
       lists |-> <<GenesisList(c),
                   <<CoinbaseTx(address(c, Miner), rew),
                     BadSigTx(c, 1, Transaction(address(c, 1), address(c, 2), 1, 0, Now,
                                                <<>>, <<>>))>>>>],
      [tag |-> "invalid", heights |-> <<0, 1>>, damage |-> "none",
       lists |-> <<GenesisList(c),
                   <<CoinbaseTx(address(c, Miner), rew), Pay(c, 1, 2, 1, 0),
                     Pay(c, 1, 2, 1, 0)>>>>] }

\* A block object with fields missing
TruncatedBlock == [height |-> 0, prev_hash |-> ZeroHash]

\* The files load is pointed at: the chains of ChainInputs, no file, a file
\* that is not JSON ("garbage") and one whose block lacks fields ("nofield")
FileInputs ==
    [c \in BOOLEAN, rew \in Rewards, diff \in Difficulties |->
        { [tag |-> "missing", file |-> MissingFile],
          [tag |-> "garbage", file |-> GarbageFile],
          [tag |-> "nofield", file |-> JsonFile(<<TruncatedBlock>>)] }
        \cup { [tag |-> d.tag,
                file |-> ChainFile(Damaged(d.damage,
                                           ForgeChain(d.lists, d.heights, diff, <<>>)))] :
               d \in ChainInputs(c, rew) }]

\* max_txs arguments of mine_pending
MaxTxsInputs == 0..MaxMempool

\* ------------------------------------------------------------- the state
\* chain, mempool, balances, next_nonce, difficulty, reward: the fields of
\* the Blockchain instance.  op, ret, arg: the call that has just been made
\* ("idle" between calls), what it returned and the kind of its argument.
\* partial: the last call left add_block from inside the live application
\* loop.  tmp_low: the most negative balance a copied ledger held during the
\* last call (0 when none).
VARIABLES chain, mempool, balances, next_nonce, difficulty, reward,
          op, ret, arg, partial, tmp_low

\* leaves, leaf: the arguments of Merkle.proof; proof: what it returned
VARIABLES leaves, leaf, proof

vars == <<chain, mempool, balances, next_nonce, difficulty, reward,
          USE_CRYPTOGRAPHY, op, ret, arg, partial, tmp_low, leaves, leaf, proof>>

Self == Instance(chain, mempool, balances, next_nonce, difficulty, reward)

\* self.<field> = ... for the mutable fields
Commit(self) ==
    /\ chain' = self.chain
    /\ mempool' = self.mempool
    /\ balances' = self.balances
    /\ next_nonce' = self.next_nonce
    /\ UNCHANGED <<difficulty, reward, USE_CRYPTOGRAPHY, leaves, leaf, proof>>

\* Blockchain.__init__
Init ==
    /\ chain = <<>> /\ mempool = <<>>
    /\ balances = EmptyDict /\ next_nonce = EmptyDict
    /\ difficulty \in Difficulties /\ reward \in Rewards
    /\ USE_CRYPTOGRAPHY \in Backends
    /\ op = "idle" /\ ret = "None" /\ arg = "none" /\ partial = FALSE /\ tmp_low = 0
    /\ leaves = <<>> /\ leaf = <<>> /\ proof = [found |-> FALSE, path |-> <<>>]

Genesis ==
    /\ op = "idle"
    /\ Len(chain) < MaxChain
    /\ \E allocations \in GenesisInputs[USE_CRYPTOGRAPHY] :
       \E r \in {create_and_add_genesis(Self, USE_CRYPTOGRAPHY, allocations, Now)} :
          /\ Commit(r.self)
          /\ op' = "create_and_add_genesis" /\ ret' = r.ret /\ arg' = "none"
          /\ partial' = r.partial /\ tmp_low' = r.low

AddToMempool ==
    /\ op = "idle"
    /\ Len(mempool) < MaxMempool
    /\ \E tx \in TxInputs[USE_CRYPTOGRAPHY] :
       \E r \in {add_to_mempool(Self, USE_CRYPTOGRAPHY, tx)} :
          /\ Commit(r.self)
          /\ op' = "add_to_mempool" /\ ret' = (IF r.ok THEN "True" ELSE "False")
          /\ arg' = TxKind(Self, tx) /\ partial' = FALSE /\ tmp_low' = r.low

MinePending ==
    /\ op = "idle"
    /\ Len(chain) < MaxChain
    /\ \E max_txs \in MaxTxsInputs :
       \E r \in {mine_pending(Self, USE_CRYPTOGRAPHY, address(USE_CRYPTOGRAPHY, Miner),
                              max_txs, Now)} :
          /\ Commit(r.self)
          /\ op' = "mine_pending" /\ ret' = (IF r.ok THEN "Block" ELSE "None")
          /\ arg' = "none" /\ partial' = r.partial /\ tmp_low' = r.low

\* add_block with a block of every kind; the faulty kinds around no user
\* transaction or one good transfer
AddBlock ==
    /\ op = "idle"
    /\ Len(chain) < MaxChain
    /\ \E kind \in BlockKinds :
       \E us \in {l \in UserLists[USE_CRYPTOGRAPHY] :
                     \/ kind = "none"
                     \/ l = <<>>
                     \/ l = <<Pay(USE_CRYPTOGRAPHY, 1, 2, 1, 0)>>} :
       \E r \in {add_block(Self, USE_CRYPTOGRAPHY,
                           BlockInput(Self, USE_CRYPTOGRAPHY, kind, us))} :
          /\ Commit(r.self)
          /\ op' = "add_block" /\ ret' = (IF r.ok THEN "True" ELSE "False")
          /\ arg' = BlockKindClass(kind) /\ partial' = r.partial
          /\ tmp_low' = r.low

\* save(): the file now holds the chain.  The file is not kept in the state:
\* what it holds is save(Self) exactly until the next call changes the chain.
Save ==
    /\ op = "idle"
    /\ Commit(Self)
    /\ op' = "save" /\ ret' = "None" /\ arg' = "none" /\ partial' = FALSE /\ tmp_low' = 0

\* load(): from the file save has just written, or from one of FileInputs
Load ==
    \E f \in IF op = "idle" THEN FileInputs[USE_CRYPTOGRAPHY, reward, difficulty]
             ELSE IF op = "save" THEN {[tag |-> "saved", file |-> save(Self)]}
             ELSE {} :
    \E r \in {load(Self, USE_CRYPTOGRAPHY, f.file)} :
       /\ Len(f.file.data) <= MaxChain
       /\ Commit(r.self)
       /\ op' = "load" /\ ret' = r.ret /\ arg' = f.tag
       /\ partial' = FALSE /\ tmp_low' = r.low

\* is_valid(): a query, the instance is left as it is
IsValid ==
    /\ op = "idle"
    /\ \E r \in {IsValidFrom(Self, USE_CRYPTOGRAPHY, 1, EmptyDict, EmptyDict, 0)} :
          /\ Commit(Self)
          /\ op' = "is_valid" /\ ret' = (IF r.ok THEN "True" ELSE "False")
          /\ arg' = "none" /\ partial' = FALSE /\ tmp_low' = r.low

\* The call returns to the driver, which makes the next call
Return ==
    /\ op # "idle"
    /\ Commit(Self)
    /\ op' = "idle" /\ ret' = "None" /\ arg' = "none" /\ partial' = FALSE /\ tmp_low' = 0

Next ==
    Genesis \/ AddToMempool \/ MinePending \/ AddBlock \/ IsValid \/ Save \/ Load
        \/ Return

Spec == Init /\ [][Next]_vars

\* The calls that build a chain in memory: no file is loaded
NextBuild == Genesis \/ AddToMempool \/ MinePending \/ AddBlock \/ IsValid \/ Return

SpecBuild == Init /\ [][NextBuild]_vars

\* ------------------------------------------- the reference scenario (demo)
\* alice = Wallet(); bob = Wallet()
Alice == 1

Bob == 2

\* {alice.address(): 200, bob.address(): 150}
DemoAllocations(c) == <<<<address(c, Alice), 200>>, <<address(c, Bob), 150>>>>

\* The transfers of the scenario: 60 (and, to overdraw bob, 200) between
\* alice and bob, with every nonce
DemoTxInputs ==
    [c \in BOOLEAN |->
        {Pay(c, p[1], p[2], a, n) :
             p \in {<<Alice, Bob>>, <<Bob, Alice>>}, a \in {60, 200}, n \in NonceInputs}]

DemoGenesis ==
    /\ op = "idle"
    /\ Len(chain) < MaxChain
    /\ \E r \in {create_and_add_genesis(Self, USE_CRYPTOGRAPHY,
                                        DemoAllocations(USE_CRYPTOGRAPHY), Now)} :
          /\ Commit(r.self)
          /\ op' = "create_and_add_genesis" /\ ret' = r.ret /\ arg' = "none"
          /\ partial' = r.partial /\ tmp_low' = r.low

DemoAddToMempool ==
    /\ op = "idle"
    /\ Len(mempool) < MaxMempool
    /\ \E tx \in DemoTxInputs[USE_CRYPTOGRAPHY] :
       \E r \in {add_to_mempool(Self, USE_CRYPTOGRAPHY, tx)} :
          /\ Commit(r.self)
          /\ op' = "add_to_mempool" /\ ret' = (IF r.ok THEN "True" ELSE "False")
          /\ arg' = TxKind(Self, tx) /\ partial' = FALSE /\ tmp_low' = r.low

NextDemo == DemoGenesis \/ DemoAddToMempool \/ MinePending \/ IsValid \/ Return

SpecDemo == Init /\ [][NextDemo]_vars

\* ------------------------------------------------- the Merkle engine alone
\* Leaf hashes handed to Merkle.proof, and a hash that is in no list
LeafHashes == {sha256_hex(<<1>>), sha256_hex(<<2>>), sha256_hex(<<3>>)}

AbsentHash == sha256_hex(<<4>>)

\* Every list of at most MaxLeaves leaf hashes, duplicates included
LeafLists == UNION {[1..n -> LeafHashes] : n \in 0..MaxLeaves}

MerkleInit ==
    /\ chain = <<>> /\ mempool = <<>>
    /\ balances = EmptyDict /\ next_nonce = EmptyDict
    /\ difficulty \in Difficulties /\ reward \in Rewards
    /\ USE_CRYPTOGRAPHY \in Backends
    /\ op = "idle" /\ ret = "None" /\ arg = "none" /\ partial = FALSE /\ tmp_low = 0
    /\ leaves \in LeafLists /\ leaf \in LeafHashes \cup {AbsentHash}
    /\ proof = [found |-> FALSE, path |-> <<>>]

\* proof = Merkle.proof(leaves, leaf)
Proof ==
    /\ op = "idle"
    /\ proof' = MerkleProof(leaves, leaf)
    /\ op' = "proof" /\ ret' = (IF proof'.found THEN "path" ELSE "None")
    /\ UNCHANGED <<chain, mempool, balances, next_nonce, difficulty, reward,
                   USE_CRYPTOGRAPHY, arg, partial, tmp_low, leaves, leaf>>

\* Merkle.verify_proof(leaf, proof, Merkle.root(leaves)), as the demo calls it
\* when proof is not None
VerifyProof ==
    /\ op = "proof" /\ proof.found
    /\ op' = "verify_proof"
    /\ ret' = (IF verify_proof(leaf, proof.path, MerkleRoot(leaves)) THEN "True" ELSE "False")
    /\ UNCHANGED <<chain, mempool, balances, next_nonce, difficulty, reward,
                   USE_CRYPTOGRAPHY, arg, partial, tmp_low, leaves, leaf, proof>>

NextMerkle == Proof \/ VerifyProof \/ Return

SpecMerkle == MerkleInit /\ [][NextMerkle]_vars

\* ------------------------------------------------------------ properties
\* Every transaction of every block of a chain, in order
RECURSIVE ChainTxs(_)
ChainTxs(ch) ==
    IF ch = <<>> THEN <<>> ELSE ChainTxs(SubSeq(ch, 1, Len(ch) - 1)) \o ch[Len(ch)].transactions

Fresh == Instance(<<>>, <<>>, EmptyDict, EmptyDict, difficulty, reward)

\* C1: in every reachable state the live balances and next_nonce equal the
\* replay, with _apply_tx from empty maps, of every transaction of every
\* block of the chain in order.
LedgerIsReplayOfChain ==
    LET r == Replay(ChainTxs(chain), EmptyDict, EmptyDict)
    IN r.ok /\ balances = r.balances /\ next_nonce = r.nonces

\* A block with a user transfer has just been appended by add_block
LedgerIsReplayWitness ==
    /\ op = "add_block" /\ ret = "True"
    /\ Len(chain) = 2
    /\ DOMAIN next_nonce # {}

\* C2: after any sequence of create_and_add_genesis, add_block, mine_pending
\* and add_to_mempool calls, accepted or rejected, is_valid() returns true.
BuiltChainIsValid ==
    /\ is_valid(Self, USE_CRYPTOGRAPHY)
    /\ op = "is_valid" => ret = "True"

\* is_valid() has answered on a two-block chain with transactions pending
BuiltChainIsValidWitness ==
    /\ op = "is_valid" /\ ret = "True"
    /\ Len(chain) = 2
    /\ mempool # <<>>

\* The alterations of a transaction list: a transaction removed, duplicated,
\* exchanged with its neighbour, changed in its amount or recipient, or a
\* coinbase added at the end
Insert(txs, i, tx) == SubSeq(txs, 1, i) \o <<tx>> \o SubSeq(txs, i + 1, Len(txs))

Alterations(txs) ==
    ( {SubSeq(txs, 1, i - 1) \o SubSeq(txs, i + 1, Len(txs)) : i \in 1..Len(txs)}
      \cup {Insert(txs, i, txs[i]) : i \in 1..Len(txs)}
      \cup {[txs EXCEPT ![i] = txs[i + 1], ![i + 1] = txs[i]] : i \in 1..(Len(txs) - 1)}
      \cup {[txs EXCEPT ![i].amount = @ + 1] : i \in 1..Len(txs)}
      \cup {[txs EXCEPT ![i].recipient = COINBASE] : i \in 1..Len(txs)}
      \cup {Append(txs, CoinbaseTx(COINBASE, 1))} ) \ {txs}

\* C3: altering the transaction list of any stored block, the header left as
\* it is, makes is_valid() return false.
TamperDetected ==
    \A i \in 1..Len(chain) :
        \A txs \in Alterations(chain[i].transactions) :
            ~is_valid([Self EXCEPT !.chain = [chain EXCEPT ![i].transactions = txs]],
                      USE_CRYPTOGRAPHY)

\* C4: no balance is below zero, in the live ledger or in any copied ledger
\* a call has replayed on.
BalancesNonNegative ==
    /\ \A a \in DOMAIN balances : balances[a] >= 0
    /\ tmp_low >= 0

\* A sender has spent all it held
BalancesNonNegativeWitness ==
    \E a \in DOMAIN next_nonce : next_nonce[a] >= 1 /\ balances[a] = 0

\* The non-coinbase transactions of address a in a list
FromSender(txs, a) == SelectSeq(txs, LAMBDA t : t.sender = a)

\* C5: a transaction is admitted to the mempool only with the nonce its
\* sender has after the replay of the mempool before it, and in the chain the
\* nonces of every address read in order are 0, 1, 2, ...
NonceStrictness ==
    /\ \A w \in WalletIds :
          LET mine == FromSender(ChainTxs(chain), address(USE_CRYPTOGRAPHY, w))
          IN \A i \in 1..Len(mine) : mine[i].nonce = i - 1
    /\ (op = "add_to_mempool" /\ ret = "True") =>
          LET tx == mempool[Len(mempool)]
              pre == Replay(SubSeq(mempool, 1, Len(mempool) - 1), balances, next_nonce)
          IN pre.ok /\ tx.nonce = DictGet(pre.nonces, tx.sender, 0)

\* An address has two transactions in the chain
NonceStrictnessWitness ==
    \E w \in WalletIds :
        Len(FromSender(ChainTxs(chain), address(USE_CRYPTOGRAPHY, w))) >= 2

\* C6: add_block returning false leaves chain, balances, next_nonce and
\* mempool as they were; returning true it has appended the block and the
\* live ledger is the replay of the block's transactions on the ledger before
\* the call; no call leaves add_block from inside the live application loop.
AddBlockAllOrNothing ==
    [][ /\ ~partial'
        /\ (op' = "add_block" /\ ret' = "False") =>
               UNCHANGED <<chain, balances, next_nonce, mempool>>
        /\ (op' = "mine_pending" /\ ret' = "None") =>
               UNCHANGED <<chain, balances, next_nonce, mempool>>
        /\ (op' = "add_block" /\ ret' = "True") =>
               /\ Len(chain') = Len(chain) + 1
               /\ SubSeq(chain', 1, Len(chain)) = chain
               /\ LET r == Replay(chain'[Len(chain')].transactions, balances, next_nonce)
                  IN r.ok /\ balances' = r.balances /\ next_nonce' = r.nonces ]_vars

\* add_block has refused a well-formed block on a funded chain (a forged
\* signature, an overdraft or a nonce out of order)
AddBlockAllOrNothingWitness ==
    /\ op = "add_block" /\ ret = "False" /\ arg = "none"
    /\ Len(chain) = 1
    /\ DOMAIN balances # {}

\* A transaction list that breaks the coinbase placement at a height
CoinbaseMisplaced(txs, height, rew) ==
    IF height > 0
    THEN \/ txs = <<>>
         \/ txs[1].sender # COINBASE
         \/ txs[1].amount # rew
         \/ \E i \in 2..Len(txs) : txs[i].sender = COINBASE
    ELSE \E i \in 1..Len(txs) : txs[i].sender # COINBASE

\* C7: no block accepted by add_block, mine_pending or create_and_add_genesis
\* breaks the coinbase placement; a block put together with a missing, late
\* or wrongly paid coinbase is accepted at height 0 only.
CoinbasePlacement ==
    /\ \A i \in 1..Len(chain) :
          ~CoinbaseMisplaced(chain[i].transactions, chain[i].height, reward)
    /\ (op = "add_block" /\ arg = "coinbase" /\ ret = "True") => Len(chain) = 1

\* add_block has refused a block with a misplaced coinbase above the genesis
CoinbasePlacementWitness ==
    /\ op = "add_block" /\ arg = "coinbase" /\ ret = "False"
    /\ Len(chain) = 1

\* C8: a load of a chain that breaks a height or coinbase rule of
\* verify_block does not return true, and after a load that returns true
\* is_valid() returns true.
LoadedChainIsValid ==
    /\ (op = "load" /\ arg = "rulebreak") => ret # "True"
    /\ (op = "load" /\ ret = "True") => is_valid(Self, USE_CRYPTOGRAPHY)

\* C9: load of a missing, unparseable, incomplete or invalid file returns
\* false, no exception leaves load, and chain, balances, next_nonce and
\* mempool are as before the call.
LoadFailsWithFalse ==
    [][ (op' = "load" /\ arg' \in {"missing", "garbage", "nofield", "invalid"}) =>
            /\ ret' = "False"
            /\ UNCHANGED <<chain, balances, next_nonce, mempool>> ]_vars

\* C10: the file save writes loads into a fresh instance with the result
\* true, the same chain, the same balances and next_nonce and an empty
\* mempool; a load of the file just saved returns true.
SaveLoadRoundTrip ==
    /\ LET r == load(Fresh, USE_CRYPTOGRAPHY, save(Self))
       IN /\ r.ret = "True"
          /\ r.self.chain = chain
          /\ r.self.balances = balances
          /\ r.self.next_nonce = next_nonce
          /\ r.self.mempool = <<>>
    /\ (op = "load" /\ arg = "saved") => (ret = "True" /\ mempool = <<>>)

\* The file just saved, holding a block with a signed transfer, has loaded
SaveLoadRoundTripWitness ==
    /\ op = "load" /\ arg = "saved" /\ ret = "True"
    /\ Len(chain) = 2
    /\ DOMAIN next_nonce # {}

\* C11: in every reachable state, also after a load that returns true, the
\* chain is height-contiguous and linked: block i has height i, the first
\* block's prev_hash is the zero sentinel and every later block's prev_hash
\* is the hash of the block before it.
ChainContiguousAndLinked ==
    \A i \in 1..Len(chain) :
        /\ chain[i].height = i - 1
        /\ chain[i].prev_hash = PrevHash(chain, i)

\* C12: every block of the chain carries the instance's configured
\* difficulty and its header hash meets it; add_block does not accept a block
\* carrying a lower difficulty, and no load puts one in the chain.
DifficultyConstant ==
    /\ \A i \in 1..Len(chain) :
          /\ chain[i].difficulty = difficulty
          /\ _pow_ok(block_hash(chain[i]), difficulty)
    /\ (op = "add_block" /\ arg = "lowdiff") => ret # "True"

\* Replaying a list on a pair succeeds at every step
RECURSIVE EveryStepApplies(_, _, _)
EveryStepApplies(txs, bal, non) ==
    \/ txs = <<>>
    \/ LET r == _apply_tx(Head(txs), bal, non)
       IN r.ok /\ EveryStepApplies(Tail(txs), r.balances, r.nonces)

\* The admission conditions: the transaction verifies, no pending transaction
\* has its txid, its sender is not COINBASE, and the mempool followed by it
\* replays on the live ledger
Admissible(tx) ==
    /\ verify_transaction(USE_CRYPTOGRAPHY, tx)
    /\ \A i \in 1..Len(mempool) : txid(mempool[i]) # txid(tx)
    /\ tx.sender # COINBASE
    /\ EveryStepApplies(Append(mempool, tx), balances, next_nonce)

\* C13: add_to_mempool(tx) returns true and appends tx at the end of the
\* mempool exactly when the admission conditions hold; otherwise it returns
\* false and the mempool is unchanged; chain, balances and next_nonce are
\* unchanged either way.  A transaction just admitted met the conditions on
\* the mempool before it.  (Every instance a call leaves is also the instance
\* of the idle state that follows the call.)
MempoolAdmission ==
    /\ op = "idle" =>
          \A tx \in TxInputs[USE_CRYPTOGRAPHY] :
              LET r == add_to_mempool(Self, USE_CRYPTOGRAPHY, tx)
              IN /\ r.ok <=> Admissible(tx)
                 /\ r.self.mempool = IF r.ok THEN Append(mempool, tx) ELSE mempool
                 /\ r.self.chain = chain
                 /\ r.self.balances = balances
                 /\ r.self.next_nonce = next_nonce
    /\ (op = "add_to_mempool" /\ ret = "True") =>
          LET tx == mempool[Len(mempool)]
              before == SubSeq(mempool, 1, Len(mempool) - 1)
          IN /\ verify_transaction(USE_CRYPTOGRAPHY, tx)
             /\ \A i \in 1..Len(before) : txid(before[i]) # txid(tx)
             /\ tx.sender # COINBASE
             /\ EveryStepApplies(mempool, balances, next_nonce)

\* A transaction has been admitted behind a pending one
MempoolAdmissionWitness ==
    /\ op = "add_to_mempool" /\ ret = "True"
    /\ Len(mempool) = 2

\* C14: in every reachable state the whole mempool, replayed in order on a
\* copy of the live ledger, succeeds at every step: each sender's pending
\* nonces continue its ledger nonce without gap and its pending debits never
\* overdraw its balance.
MempoolReplays == EveryStepApplies(mempool, balances, next_nonce)

\* C15: the mempool never holds two transactions with the same txid, and
\* add_to_mempool of a transaction whose txid is that of a pending one
\* returns false.
MempoolTxidsDistinct ==
    /\ \A i, j \in 1..Len(mempool) : i # j => txid(mempool[i]) # txid(mempool[j])
    /\ (op = "add_to_mempool" /\ arg = "pending") => ret = "False"
    /\ \A i \in 1..Len(mempool) :
          ~add_to_mempool(Self, USE_CRYPTOGRAPHY, mempool[i]).ok

\* A pending transaction has been handed to add_to_mempool again
MempoolTxidsDistinctWitness ==
    /\ op = "add_to_mempool" /\ arg = "pending" /\ ret = "False"
    /\ mempool # <<>>

\* C16: no transaction pending in the mempool has a txid that appears in a
\* block of the chain, whichever of mine_pending, add_block and load extended
\* or replaced the chain.
MempoolUnconfirmed ==
    \A i \in 1..Len(mempool) :
        \A j \in 1..Len(ChainTxs(chain)) : txid(mempool[i]) # txid(ChainTxs(chain)[j])

\* The first min(k, len(mempool)) pending transactions, and the others
FirstPending(k) == SubSeq(mempool, 1, Min2(k, Len(mempool)))

RestPending(k) == SubSeq(mempool, Min2(k, Len(mempool)) + 1, Len(mempool))

\* The coinbase mine_pending puts first at height > 0
RewardTx == Transaction(COINBASE, address(USE_CRYPTOGRAPHY, Miner), reward, 0, Now, <<>>, <<>>)

\* C17: mine_pending(miner, max_txs) with max_txs >= 0, when it succeeds, has
\* appended a block that holds (after the coinbase when height > 0) exactly
\* the first min(max_txs, len(mempool)) pending transactions in order, and
\* the mempool is then exactly the remaining ones in order; when the block is
\* rejected it returns no block and mempool, chain, balances and next_nonce
\* are unchanged.  (Every instance a call leaves is also the instance of the
\* idle state that follows the call.)
MinePendingFrame ==
    /\ op = "idle" =>
          \A k \in MaxTxsInputs :
              LET r == mine_pending(Self, USE_CRYPTOGRAPHY,
                                    address(USE_CRYPTOGRAPHY, Miner), k, Now)
              IN IF r.ok
                 THEN /\ Len(r.self.chain) = Len(chain) + 1
                      /\ SubSeq(r.self.chain, 1, Len(chain)) = chain
                      /\ r.self.chain[Len(chain) + 1].transactions =
                             (IF Len(chain) > 0 THEN <<RewardTx>> ELSE <<>>)
                                 \o FirstPending(k)
                      /\ r.self.mempool = RestPending(k)
                 ELSE r.self = Self
    /\ (op = "mine_pending" /\ ret = "None") => ~partial
    /\ (op = "mine_pending" /\ ret = "Block") =>
          /\ chain # <<>>
          /\ \A i \in 1..Len(mempool) :
                \A j \in 1..Len(chain[Len(chain)].transactions) :
                    txid(mempool[i]) # txid(chain[Len(chain)].transactions[j])

\* mine_pending has mined the first pending transaction and left the second
MinePendingFrameWitness ==
    /\ op = "mine_pending" /\ ret = "Block"
    /\ Len(chain) = 2 /\ Len(chain[2].transactions) = 2
    /\ Len(mempool) = 1

\* C18: for every list of leaf hashes (odd or even length, duplicates
\* included) and every leaf of it, Merkle.proof returns a path that
\* Merkle.verify_proof accepts against Merkle.root of the list; Merkle.proof
\* returns not-found exactly when the target is not in the list.
MerkleProofComplete ==
    /\ \A i \in 1..Len(leaves) :
          /\ MerkleProof(leaves, leaves[i]).found
          /\ verify_proof(leaves[i], MerkleProof(leaves, leaves[i]).path, MerkleRoot(leaves))
    /\ ~MerkleProof(leaves, AbsentHash).found
    /\ op = "proof" => ((ret = "None") <=> ~(\E i \in 1..Len(leaves) : leaves[i] = leaf))
    /\ op = "verify_proof" => ret = "True"

\* The proof of the last leaf of a three-leaf list, whose first two leaves
\* are equal, has been verified
MerkleProofCompleteWitness ==
    /\ op = "verify_proof" /\ ret = "True"
    /\ Len(leaves) = 3 /\ leaves[1] = leaves[2] /\ leaves[3] = leaf /\ leaves[1] # leaf
    /\ Len(proof.path) = 2

\* The transactions of address a that the chain and the mempool publish
PublishedBy(a) == {t \in {ChainTxs(chain)[i] : i \in 1..Len(ChainTxs(chain))}
                            \cup {mempool[i] : i \in 1..Len(mempool)} : t.sender = a}

\* What the holder of wallet v builds in the name of wallet w from public
\* data (w's address, w's public key bytes once a transaction of w is
\* published, the signatures of w's published transactions): transfers from
\* w other than the published ones
AttackerTxs(w, v) ==
    LET c == USE_CRYPTOGRAPHY
        seen == PublishedBy(address(c, w))
        plain == {Transaction(address(c, w), address(c, v), a, n, Now, <<>>, <<>>) :
                      a \in {1, 2}, n \in 0..(MaxNonce + 1)}
    IN IF seen = {} THEN {}
       ELSE ( UNION {ForgedFrom(c, w, v, tx) : tx \in plain}
              \cup {[WithKey(c, w, tx) EXCEPT !.sig_b64 = t.sig_b64] :
                        tx \in plain, t \in seen} ) \ seen

\* C19: with either signing backend, a non-coinbase transaction that
\* verify_transaction accepts carries the public key its sender address is
\* the hash of and a signature made with that sender's private key, and
\* verify_transaction accepts no transaction that another party builds in a
\* sender's name from public data.
SignatureAuthenticity ==
    /\ \A tx \in TxInputs[USE_CRYPTOGRAPHY] \cup UNION {PublishedBy(address(USE_CRYPTOGRAPHY, w)) : w \in WalletIds} :
          (tx.sender # COINBASE /\ verify_transaction(USE_CRYPTOGRAPHY, tx)) =>
              \E w \in WalletIds :
                  /\ tx.sender = address(USE_CRYPTOGRAPHY, w)
                  /\ sha256_hex(b64d(tx.pubkey_b64)) = tx.sender
                  /\ b64d(tx.sig_b64) = sign(USE_CRYPTOGRAPHY, w, message_bytes(tx))
    /\ \A w \in Senders : \A v \in WalletIds \ {w} :
          \A tx \in AttackerTxs(w, v) : ~verify_transaction(USE_CRYPTOGRAPHY, tx)

\* The scenario's transfer: alice sends 60 to bob with nonce 0
DemoTx == Pay(USE_CRYPTOGRAPHY, Alice, Bob, 60, 0)

\* C20: after the genesis minting 200 to A and 150 to B, A's transfer of 60
\* to B with nonce 0 is admitted and mine_pending by M succeeds; then
\* balance(A) = 140, balance(B) = 210, balance(M) = reward and
\* expected_nonce(A) = 1, and add_to_mempool rejects a second transaction of
\* A carrying nonce 0.
ReferenceScenario ==
    LET c == USE_CRYPTOGRAPHY
        A == address(c, Alice)
        B == address(c, Bob)
        M == address(c, Miner)
        g == create_and_add_genesis(Fresh, c, DemoAllocations(c), Now)
        a == add_to_mempool(g.self, c, DemoTx)
        m == mine_pending(a.self, c, M, MaxMempool, Now)
        Settled(self) ==
            /\ DictGet(self.balances, A, 0) = 140
            /\ DictGet(self.balances, B, 0) = 210
            /\ DictGet(self.balances, M, 0) = reward
            /\ DictGet(self.next_nonce, A, 0) = 1
            /\ \A tx \in DemoTxInputs[c] :
                  (tx.sender = A /\ tx.nonce = 0) => ~add_to_mempool(self, c, tx).ok
    IN /\ g.ret = "Block" /\ a.ok /\ a.self.mempool = <<DemoTx>>
       /\ m.ok /\ m.self.mempool = <<>>
       /\ Settled(m.self)
       /\ ( /\ Len(chain) = 2
            /\ chain[1].transactions = GenesisTxs(DemoAllocations(c), Now)
            /\ chain[2].transactions = <<RewardTx, DemoTx>> ) =>
              /\ Settled(Self)
              /\ \A i \in 1..Len(mempool) : ~(mempool[i].sender = A /\ mempool[i].nonce = 0)

\* The scenario has run: mine_pending has just mined alice's transfer on the
\* scenario's genesis
ReferenceScenarioWitness ==
    /\ op = "mine_pending" /\ ret = "Block"
    /\ Len(chain) = 2
    /\ chain[1].transactions = GenesisTxs(DemoAllocations(USE_CRYPTOGRAPHY), Now)
    /\ chain[2].transactions = <<RewardTx, DemoTx>>
    /\ mempool = <<>>

\* The addresses a ledger can hold an entry for
Addresses(non, non2) ==
    {address(USE_CRYPTOGRAPHY, w) : w \in WalletIds} \cup {COINBASE}
        \cup DOMAIN non \cup DOMAIN non2

\* ch2 is ch with blocks appended
Extends(ch2, ch) == Len(ch2) >= Len(ch) /\ SubSeq(ch2, 1, Len(ch)) = ch

\* The transactions of the blocks ch2 holds after those of ch
AppendedTxs(ch2, ch) == ChainTxs(SubSeq(ch2, Len(ch) + 1, Len(ch2)))

\* The nonce of every address has grown by the number of its transactions in
\* the blocks the step appended
NonceCountsAppended ==
    /\ Extends(chain', chain)
    /\ \A a \in Addresses(next_nonce, next_nonce') :
          DictGet(next_nonce', a, 0)
              = DictGet(next_nonce, a, 0)
                  + (IF a = COINBASE THEN 0
                     ELSE Len(FromSender(AppendedTxs(chain', chain), a)))

\* C21: in every step of add_to_mempool, mine_pending, add_block and
\* create_and_add_genesis the nonce of every address grows by exactly the
\* number of its non-coinbase transactions in the blocks the step appended
\* (so it never decreases, and coinbase and rejected transactions leave it
\* as it is); load returning true replaces next_nonce by the count of each
\* address's transactions in the loaded chain, and leaves it as it was
\* otherwise.
NonceGrowsByAppliedTxs ==
    [][ /\ op' # "load" => NonceCountsAppended
        /\ op' = "load" =>
              IF ret' = "True"
              THEN \A a \in Addresses(next_nonce, next_nonce') :
                      DictGet(next_nonce', a, 0)
                          = IF a = COINBASE THEN 0
                            ELSE Len(FromSender(ChainTxs(chain'), a))
              ELSE next_nonce' = next_nonce ]_vars

\* mine_pending has applied two transactions of one sender in one block
NonceGrowsByAppliedTxsWitness ==
    /\ op = "mine_pending" /\ ret = "Block"
    /\ \E a \in DOMAIN next_nonce :
          /\ next_nonce[a] = 2
          /\ Len(FromSender(chain[Len(chain)].transactions, a)) = 2

\* C21 as stated: across every step of every operation, load included,
\* next_nonce[addr] never decreases, and it grows by exactly one for each
\* non-coinbase transaction of addr applied in an appended block.
NonceNeverDecreases ==
    [][ /\ \A a \in Addresses(next_nonce, next_nonce') :
              DictGet(next_nonce', a, 0) >= DictGet(next_nonce, a, 0)
        /\ op' # "load" => NonceCountsAppended ]_vars

\* The sum of the amounts of a list of transactions
RECURSIVE SumAmounts(_)
SumAmounts(txs) ==
    IF txs = <<>> THEN 0 ELSE txs[1].amount + SumAmounts(Tail(txs))

\* C22: expected_nonce_with_mempool(addr) is the lowest nonce from the
\* ledger's on that no pending transaction of addr claims, it equals
\* next_nonce[addr] plus the number of addr's pending transactions, and the
\* transaction create_transaction builds with it, for an amount the sender
\* holds beyond what its pending transactions spend, is admitted by
\* add_to_mempool.
CreatedTxAdmitted ==
    \A w \in Senders : \A v \in WalletIds :
        LET c == USE_CRYPTOGRAPHY
            a == address(c, w)
            n == expected_nonce_with_mempool(Self, a)
            pending == FromSender(mempool, a)
            tx == create_transaction(Self, c, w, address(c, v), 1, Now)
        IN /\ n \notin PendingNonces(Self, a)
           /\ \A m \in expected_nonce(Self, a)..(n - 1) : m \in PendingNonces(Self, a)
           /\ n = DictGet(next_nonce, a, 0) + Len(pending)
           /\ tx.nonce = n
           /\ DictGet(balances, a, 0) - SumAmounts(pending) >= 1 =>
                 add_to_mempool(Self, c, tx).ok

\* C23: the Merkle root binds the ordered list of txids: no list of leaves
\* different from the one handed to Merkle.root has the same root, a list of
\* odd length with its last element repeated included.
MerkleRootBindsList ==
    \A other \in LeafLists :
        other # leaves => MerkleRoot(other) # MerkleRoot(leaves)

\* The allocations as the dict they are
AllocationDict(allocations) ==
    [a \in {allocations[i][1] : i \in 1..Len(allocations)} |->
        (CHOOSE i \in 1..Len(allocations) : allocations[i][1] = a)]

\* C24: create_and_add_genesis on an empty chain with allocations all above
\* zero returns the block and leaves a chain of that one block, holding one
\* coinbase transaction per allocation, balances equal to the allocations and
\* an empty next_nonce; on a non-empty chain, or with an allocation of zero
\* or less, it raises and leaves chain, balances, next_nonce and mempool as
\* they were, with no block half applied.
GenesisThroughAddBlock ==
    /\ op = "idle" =>
          \A allocations \in GenesisInputs[USE_CRYPTOGRAPHY] :
              LET r == create_and_add_genesis(Self, USE_CRYPTOGRAPHY, allocations, Now)
                  n == Len(allocations)
                  d == AllocationDict(allocations)
              IN IF chain = <<>> /\ \A i \in 1..n : allocations[i][2] > 0
                 THEN /\ r.ret = "Block"
                      /\ Len(r.self.chain) = 1
                      /\ Len(r.self.chain[1].transactions) = n
                      /\ \A i \in 1..n :
                            /\ r.self.chain[1].transactions[i].sender = COINBASE
                            /\ r.self.chain[1].transactions[i].recipient = allocations[i][1]
                            /\ r.self.chain[1].transactions[i].amount = allocations[i][2]
                      /\ r.self.balances = [a \in DOMAIN d |-> allocations[d[a]][2]]
                      /\ r.self.next_nonce = EmptyDict
                      /\ r.self.mempool = mempool
                 ELSE /\ r.ret = "raise"
                      /\ r.self = Self
                      /\ ~r.partial
    /\ op = "create_and_add_genesis" =>
          IF ret = "Block"
          THEN /\ Len(chain) = 1
               /\ \A i \in 1..Len(chain[1].transactions) :
                     /\ chain[1].transactions[i].sender = COINBASE
                     /\ chain[1].transactions[i].amount > 0
                     /\ balances[chain[1].transactions[i].recipient]
                            = chain[1].transactions[i].amount
               /\ next_nonce = EmptyDict
          ELSE ret = "raise" /\ ~partial

\* create_and_add_genesis has raised on an empty chain, for an allocation
\* that is not above zero
GenesisThroughAddBlockWitness ==
    /\ op = "create_and_add_genesis" /\ ret = "raise"
    /\ chain = <<>> /\ balances = EmptyDict

\* The keys on which two dicts differ
Changed(d, e) ==
    {k \in DOMAIN d \cup DOMAIN e : k \notin DOMAIN d \/ k \notin DOMAIN e \/ d[k] # e[k]}

\* The trial replays of verify_block and add_to_mempool leave the live dicts
\* as they were, whatever they answer, and answer as verify_block and
\* add_to_mempool do; _apply_tx returning false leaves the pair it was handed
\* as it was, and returning true it changes the entries of the sender and
\* the recipient only
TrialLeavesLive ==
    /\ \A us \in UserLists[USE_CRYPTOGRAPHY] :
          LET b == BlockInput(Self, USE_CRYPTOGRAPHY, "none", us)
              h == verify_block_heap(Self, USE_CRYPTOGRAPHY, b)
          IN /\ h.heap.live = Heap(Self).live
             /\ h.ok = verify_block(Self, USE_CRYPTOGRAPHY, b)
    /\ \A tx \in TxInputs[USE_CRYPTOGRAPHY] :
          LET h == add_to_mempool_heap(Self, USE_CRYPTOGRAPHY, tx)
              r == _apply_tx(tx, balances, next_nonce)
          IN /\ h.heap.live = Heap(Self).live
             /\ h.ok = add_to_mempool(Self, USE_CRYPTOGRAPHY, tx).ok
             /\ ~r.ok => r.balances = balances /\ r.nonces = next_nonce
             /\ r.ok => /\ Changed(r.balances, balances) \subseteq {tx.sender, tx.recipient}
                        /\ Changed(r.nonces, next_nonce) \subseteq {tx.sender}

\* C25: speculative replay never aliases live state: the trial replays of
\* verify_block and add_to_mempool write to copies and leave balances and
\* next_nonce as they were whatever they return, _apply_tx writes only to
\* the pair it is handed and to nothing when it returns false, and a call of
\* is_valid or save leaves chain, mempool, balances and next_nonce unchanged.
ReplayNeverAliasesLive ==
    /\ [](op = "idle" => TrialLeavesLive)
    /\ [][op' \in {"is_valid", "save"} =>
              UNCHANGED <<chain, mempool, balances, next_nonce>>]_vars

\* verify_block would refuse a block after its copy of the ledger was
\* written by the block's first transactions
ReplayNeverAliasesLiveWitness ==
    /\ op = "idle"
    /\ \E us \in UserLists[USE_CRYPTOGRAPHY] :
          LET h == verify_block_heap(Self, USE_CRYPTOGRAPHY,
                                     BlockInput(Self, USE_CRYPTOGRAPHY, "none", us))
          IN ~h.ok /\ h.heap.tmp.nonces # h.heap.live.nonces

\* C26: a non-empty mempool never blocks mining: in every reachable state
\* with transactions pending, mine_pending with some max_txs >= 1 returns a
\* block, so that the pending transactions reach the chain as mine_pending
\* keeps being called.
MempoolNeverBlocksMining ==
    mempool # <<>> =>
        \E max_txs \in 1..MaxMempool :
            mine_pending(Self, USE_CRYPTOGRAPHY, address(USE_CRYPTOGRAPHY, Miner),
                         max_txs, Now).ok

\* The sum of the values of a dict
RECURSIVE SumDict(_)
SumDict(d) ==
    IF DOMAIN d = {} THEN 0
    ELSE LET k == CHOOSE x \in DOMAIN d : TRUE
         IN d[k] + SumDict([x \in DOMAIN d \ {k} |-> d[x]])

\* The coinbase transactions of a list
Coinbases(txs) == SelectSeq(txs, LAMBDA t : t.sender = COINBASE)

\* C27: in every reachable state the balances add up to the amounts of the
\* coinbase transactions of the chain; _apply_tx of a transfer leaves the
\* total as it was, of a coinbase raises it by the coinbase's amount, and a
\* transfer of a sender to itself leaves the sender's balance as it was and
\* raises its nonce by one.
SupplyConserved ==
    /\ SumDict(balances) = SumAmounts(Coinbases(ChainTxs(chain)))
    /\ op = "idle" =>
          \A tx \in TxInputs[USE_CRYPTOGRAPHY] :
              LET r == _apply_tx(tx, balances, next_nonce)
              IN r.ok =>
                    /\ SumDict(r.balances)
                           = SumDict(balances) + (IF tx.sender = COINBASE THEN tx.amount ELSE 0)
                    /\ tx.sender = tx.recipient =>
                          /\ r.balances[tx.sender] = balances[tx.sender]
                          /\ r.nonces[tx.sender] = DictGet(next_nonce, tx.sender, 0) + 1

\* The chain holds a transfer of a sender to itself
SupplyConservedWitness ==
    \E i \in 1..Len(ChainTxs(chain)) :
        /\ ChainTxs(chain)[i].sender # COINBASE
        /\ ChainTxs(chain)[i].sender = ChainTxs(chain)[i].recipient

====
